---- MODULE Spec2Model ----
(***************************************************************************)
(* binance.js: the REST client's construction, its request dispatch        *)
(* (RestClient.http), getOrderBook, the HMAC signer (utils.getHmac) and    *)
(* the error taxonomy (errors.ts).                                         *)
(*                                                                         *)
(* JavaScript objects are modelled as heap cells holding an insertion-     *)
(* ordered sequence of <<key, value>> pairs, so that aliasing, in-place    *)
(* property writes and key order are all visible.  A string is a sequence  *)
(* of tokens (a key name, a value, "=", "&", "%", ...); every token stands *)
(* for the run of characters it spells.                                    *)
(***************************************************************************)
EXTENDS Integers, Sequences, FiniteSets, TLC

VARIABLES
    AXIOS_DEFAULTS, \* the module-level defaults object (rest-client.ts:11)
    clients,        \* the RestClient instances constructed so far
    opts,           \* heap of transport-options objects (AxiosRequestConfig)
    objs,           \* heap of plain key/value objects (params, data, headers)
    calls,          \* one frame per RestClient.http invocation
    wire,           \* the requests handed to the transport, in order
    now,            \* the clock read by Date.now()
    books           \* one frame per RestClient.getOrderBook invocation

vars == <<AXIOS_DEFAULTS, clients, opts, objs, calls, wire, now, books>>

(***************************************************************************)
(* Bounds of the model.                                                    *)
(***************************************************************************)
MaxCalls == 2
MaxClients == 2

CallIds == 1..MaxCalls

(***************************************************************************)
(* Values.                                                                 *)
(***************************************************************************)
\* A property value: a string token or a number.
Str(a) == [t |-> "str", n |-> 0, s |-> a]
Num(i) == [t |-> "num", n |-> i, s |-> ""]
Undefined == [t |-> "undefined", n |-> 0, s |-> ""]

\* What an options field holds: nothing, a reference to a heap object, or a
\* string (a sequence of tokens).
Absent == [k |-> "absent", id |-> 0, s |-> <<>>]
ObjRef(i) == [k |-> "obj", id |-> i, s |-> <<>>]
StrVal(s) == [k |-> "str", id |-> 0, s |-> s]

\* JavaScript truthiness of an optional string credential: `!x` is true for
\* undefined and for the empty string.
Falsy(v) == v = "" \/ v = "undefined"

(***************************************************************************)
(* Insertion-ordered objects.                                              *)
(***************************************************************************)
HasKey(o, k) == \E i \in 1..Len(o) : o[i][1] = k

Get(o, k) == o[CHOOSE i \in 1..Len(o) : o[i][1] = k][2]

\* obj[k] = v : an existing key keeps its position, a new key is appended.
Put(o, k, v) ==
    IF HasKey(o, k)
    THEN [i \in 1..Len(o) |-> IF o[i][1] = k THEN <<k, v>> ELSE o[i]]
    ELSE Append(o, <<k, v>>)

\* The own enumerable properties of a string: one per index.
StringProps(s) == [i \in 1..Len(s) |-> <<ToString(i - 1), Str(s[i])>>]

\* Object.assign({}, src): a fresh object holding src's own enumerable
\* properties in order; undefined contributes nothing, a string contributes
\* its indexed characters.
ObjectAssign(src, heap) ==
    IF src.k = "obj" THEN heap[src.id]
    ELSE IF src.k = "str" THEN StringProps(src.s)
    ELSE <<>>

(***************************************************************************)
(* querystring.stringify and utils.getHmac.                                *)
(***************************************************************************)
\* querystring's stringifyPrimitive: numbers are printed in decimal,
\* anything that is neither string, number nor boolean becomes "".
StringifyPrimitive(v) ==
    IF v.t = "str" THEN v.s
    ELSE IF v.t = "num" THEN ToString(v.n)
    ELSE ""

\* querystring.escape of one token: the separators and the escape character
\* are percent-encoded, every other token of the model is left as it is.
Escape(a) ==
    IF a = "=" THEN <<"%", "3D">>
    ELSE IF a = "&" THEN <<"%", "26">>
    ELSE IF a = "%" THEN <<"%", "25">>
    ELSE <<a>>

RECURSIVE QJoin(_, _)
QJoin(o, i) ==
    IF i > Len(o) THEN <<>>
    ELSE (IF i > 1 THEN <<"&">> ELSE <<>>)
         \o Escape(o[i][1]) \o <<"=">> \o Escape(StringifyPrimitive(o[i][2]))
         \o QJoin(o, i + 1)

\* querystring.stringify(obj): k1=v1&k2=v2... in the object's key order.
qstringify(o) == QJoin(o, 1)

RECURSIVE Flat(_)
Flat(s) == IF s = <<>> THEN "" ELSE Head(s) \o Flat(Tail(s))

\* utils.getHmac: the hex digest of HMAC-SHA256(key = apisecret, input).  The
\* digest is a symbolic token determined by exactly the input and the key.
getHmac(input, apisecret) == "hmac(" \o Flat(input) \o "," \o apisecret \o ")"

(***************************************************************************)
(* url-join of the API base and the endpoint's relative path.              *)
(***************************************************************************)
API_BASE == <<"https://api.binance.com", "/", "api">>

RECURSIVE StripLeading(_)
StripLeading(p) ==
    IF p # <<>> /\ Head(p) = "/" THEN StripLeading(Tail(p)) ELSE p

UrlJoin(base, path) == base \o <<"/">> \o StripLeading(path)

(***************************************************************************)
(* The error taxonomy of errors.ts and the outcome of a call.              *)
(***************************************************************************)
NoResponse == [status |-> -1, statusText |-> "", data |-> ""]

Outcome(kind, msg, resp) ==
    [kind |-> kind, message |-> msg,
     response |-> resp.data, statusText |-> resp.statusText,
     statusCode |-> resp.status]

NoOutcome == Outcome("none", <<>>, NoResponse)

\* new Errors.MissingCredentialsError(`${security} HTTP endpoints require
\* opts.<field> to be provided`)
MissingCredentialsError(security, field) ==
    Outcome("MissingCredentialsError",
            <<security, "HTTP endpoints require", field, "to be provided">>,
            NoResponse)

\* new Errors.HttpError(e): wraps the transport's error.
HttpError(cause) == Outcome("HttpError", <<cause>>, NoResponse)

\* Mutant: the body and the status text are passed in each other's place.
StatusErrorSwapped(kind, result) ==
    Outcome(kind, <<>>, [result EXCEPT !.data = result.statusText,
                                        !.statusText = result.data])

\* The status-based errors carry (result.data, result.statusText,
\* result.status); success returns the response itself.
StatusError(kind, result) == Outcome(kind, <<>>, result)

Success(result) == Outcome("Success", <<>>, result)

\* Mutant: the general 5xx rule is tested before the 504 rule.
ClassifyGeneralFirst(result) ==
    IF result.status >= 400 /\ result.status <= 499
    THEN StatusError("MalformedRequestError", result)
    ELSE IF result.status >= 500 /\ result.status <= 599
    THEN StatusError("InternalRequestError", result)
    ELSE IF result.status = 504
    THEN StatusError("RequestResultUnknownError", result)
    ELSE Success(result)

\* rest-client.ts:123-131, in the order the code tests the status.
Classify(result) ==
    IF result.status >= 400 /\ result.status <= 499
    THEN StatusError("MalformedRequestError", result)
    ELSE IF result.status = 504
    THEN StatusError("RequestResultUnknownError", result)
    ELSE IF result.status >= 500 /\ result.status <= 599
    THEN StatusError("InternalRequestError", result)
    ELSE Success(result)


(***************************************************************************)
(* RestClient.http, the synchronous part (rest-client.ts:50-118): from the *)
(* call up to the point where the request is handed to axios.              *)
(***************************************************************************)
\* const httpMethod = endpoint.method || 'GET'
HttpMethod(endpoint) ==
    IF endpoint.method = "undefined" THEN "GET" ELSE endpoint.method

\* Mutant: the inputs are staged from options.params whatever the method.
StageInputsFromParams(httpMethod, options, heap) ==
    ObjectAssign(options.params, heap)

\* const inputs = httpMethod === 'GET' ? Object.assign({}, options.params)
\*                                     : Object.assign({}, options.data)
StageInputs(httpMethod, options, heap) ==
    IF httpMethod = "GET" THEN ObjectAssign(options.params, heap)
    ELSE ObjectAssign(options.data, heap)

\* Mutant: the inputs are the caller's own mapping, not a copy of it.
StagedCellAliased(httpMethod, options, heap) ==
    LET src == IF httpMethod = "GET" THEN options.params ELSE options.data
    IN  IF src.k = "obj" THEN [heap |-> heap, id |-> src.id]
        ELSE [heap |-> Append(heap, StageInputs(httpMethod, options, heap)),
              id |-> Len(heap) + 1]

\* Object.assign({}, ...) makes inputs a new object: a new cell of the heap.
StagedCell(httpMethod, options, heap) ==
    [heap |-> Append(heap, StageInputs(httpMethod, options, heap)),
     id |-> Len(heap) + 1]

\* Mutant: the apikey is required of SIGNED endpoints only.
CredentialCheckSignedOnly(client, endpoint) ==
    IF endpoint.security = "SIGNED" /\ Falsy(client.options.apikey)
    THEN "opts.apikey"
    ELSE IF endpoint.security = "SIGNED" /\ Falsy(client.options.apisecret)
    THEN "opts.apisecret"
    ELSE "ok"

\* Mutant: the apisecret is checked before the apikey.
CredentialCheckSecretFirst(client, endpoint) ==
    IF endpoint.security = "SIGNED" /\ Falsy(client.options.apisecret)
    THEN "opts.apisecret"
    ELSE IF endpoint.security # "NONE" /\ Falsy(client.options.apikey)
    THEN "opts.apikey"
    ELSE "ok"

\* The credential checks of lines 67-83, in the code's order: "ok" or the
\* field whose absence makes the call throw.
CredentialCheck(client, endpoint) ==
    IF endpoint.security # "NONE" /\ Falsy(client.options.apikey)
    THEN "opts.apikey"
    ELSE IF endpoint.security = "SIGNED" /\ Falsy(client.options.apisecret)
    THEN "opts.apisecret"
    ELSE "ok"

\* Mutant: a header the caller supplied is left as it is.
AttachKeyIfAbsent(client, endpoint, headers) ==
    IF endpoint.security # "NONE" /\ ~HasKey(headers, "X-MBX-APIKEY")
    THEN Put(headers, "X-MBX-APIKEY", Str(client.options.apikey))
    ELSE headers

\* headers['X-MBX-APIKEY'] = this.options.apikey, for every tier but NONE.
AttachKey(client, endpoint, headers) ==
    IF endpoint.security # "NONE"
    THEN Put(headers, "X-MBX-APIKEY", Str(client.options.apikey))
    ELSE headers

\* Mutant: the signature is computed and added before the timestamp.
SignThenStamp(inputs, t, apisecret) ==
    LET signed == Put(inputs, "signature",
                      Str(getHmac(qstringify(inputs), apisecret)))
    IN  Put(signed, "timestamp", Num(t))

\* inputs.timestamp = Date.now();
\* inputs.signature = getHmac(qstringify(inputs), apisecret)
Sign(inputs, t, apisecret) ==
    LET stamped == Put(inputs, "timestamp", Num(t))
    IN  Put(stamped, "signature", Str(getHmac(qstringify(stamped), apisecret)))

\* Mutant: the caller's options win over the dispatcher's (the arguments of
\* Object.assign the other way round).
RequestOptionsFavourCaller(options, fullUrl, hId, httpMethod, iId, inputs) ==
    LET merged ==
          [options EXCEPT
             !.url = IF options.url = <<>> THEN fullUrl ELSE @,
             !.headers = ObjRef(hId),
             !.method = IF options.method = "undefined" THEN httpMethod ELSE @,
             !.validateStatus =
                 IF options.validateStatus = "undefined" THEN "acceptAll" ELSE @]
    IN  IF httpMethod = "GET"
        THEN [merged EXCEPT !.params = ObjRef(iId)]
        ELSE [merged EXCEPT !.data = StrVal(qstringify(inputs))]

\* Object.assign(options, {url, headers, method, validateStatus}) followed by
\* the placement of the inputs: the options object itself is written.
RequestOptions(options, fullUrl, hId, httpMethod, iId, inputs) ==
    LET merged == [options EXCEPT !.url = fullUrl,
                                  !.headers = ObjRef(hId),
                                  !.method = httpMethod,
                                  !.validateStatus = "acceptAll"]
    IN  IF httpMethod = "GET"
        THEN [merged EXCEPT !.params = ObjRef(iId)]
        ELSE [merged EXCEPT !.data = StrVal(qstringify(inputs))]

\* What axios.request(config) takes from the config when it is called: axios
\* 0.17 merges the config into a fresh one, so the request is fixed there.
Snapshot(config, heap) ==
    [url |-> config.url,
     method |-> config.method,
     headers |-> ObjectAssign(config.headers, heap),
     params |-> [k |-> config.params.k, o |-> ObjectAssign(config.params, heap)],
     data |-> config.data,
     validateStatus |-> config.validateStatus]

NoRequest ==
    [url |-> <<>>, method |-> "", headers |-> <<>>,
     params |-> [k |-> "absent", o |-> <<>>], data |-> Absent,
     validateStatus |-> "undefined"]

\* The whole synchronous part on options object o, with the heaps O (options)
\* and H (plain objects) and the clock reading t: the heaps it leaves, the
\* locals of the frame, the clock after it (Date.now() is read on the signing
\* path only, and the clock has moved on by the next read), and either the
\* error thrown or the request sent.
HttpSync(client, endpoint, o, O, H, t) ==
    LET options == O[o]
        httpMethod == HttpMethod(endpoint)
        ownHeaders == options.headers.k = "obj"
        H1 == IF ownHeaders THEN H ELSE Append(H, <<>>)
        hId == IF ownHeaders THEN options.headers.id ELSE Len(H1)
        staged == StagedCell(httpMethod, options, H1)
        H2 == staged.heap
        iId == staged.id
        O1 == [O EXCEPT ![o].data = Absent, ![o].params = Absent]
        check == CredentialCheck(client, endpoint)
        H3 == [H2 EXCEPT ![hId] = AttachKey(client, endpoint, @)]
        H4 == IF endpoint.security = "SIGNED"
              THEN [H3 EXCEPT ![iId] = Sign(@, t, client.options.apisecret)]
              ELSE H3
        fullUrl == UrlJoin(API_BASE, endpoint.url)
        requestOptions ==
            RequestOptions(O1[o], fullUrl, hId, httpMethod, iId, H4[iId])
        O2 == [O1 EXCEPT ![o] = requestOptions]
        locals == [httpMethod |-> httpMethod, headers |-> hId, inputs |-> iId]
    IN  IF check = "opts.apikey"
        THEN [opts |-> O1, objs |-> H2, locals |-> locals, sent |-> FALSE,
              request |-> NoRequest, clock |-> t,
              thrown |-> MissingCredentialsError(endpoint.security, check)]
        ELSE IF check = "opts.apisecret"
        THEN [opts |-> O1, objs |-> H3, locals |-> locals, sent |-> FALSE,
              request |-> NoRequest, clock |-> t,
              thrown |-> MissingCredentialsError(endpoint.security, check)]
        ELSE [opts |-> O2, objs |-> H4, locals |-> locals, sent |-> TRUE,
              request |-> Snapshot(requestOptions, H4),
              clock |-> IF endpoint.security = "SIGNED" THEN t + 1 ELSE t,
              thrown |-> NoOutcome]


(***************************************************************************)
(* The transport (axios) and the asynchronous part (rest-client.ts:114-131)*)
(***************************************************************************)
\* axios settles a received response by the request's validateStatus: the
\* promise resolves when it accepts the status and rejects otherwise; with
\* none given, axios's default accepts 200..299.
Accepts(validateStatus, status) ==
    \/ validateStatus = "acceptAll"
    \/ validateStatus = "undefined" /\ status >= 200 /\ status < 300

\* try { result = await this.axios.request(...) } catch (e) { throw new
\* HttpError(e) }, then the classification of result.status.
OnResponse(request, result) ==
    IF Accepts(request.validateStatus, result.status)
    THEN Classify(result)
    ELSE HttpError("Request failed with status code")

OnTransportError(cause) == HttpError(cause)

(***************************************************************************)
(* Construction (rest-client.ts:11-28).                                    *)
(***************************************************************************)
\* Object.assign(AXIOS_DEFAULTS, options.axiosOptions || {}): the module's
\* defaults object is the target of the assignment.
AssignDefaults(defaults, axiosOptions) ==
    IF axiosOptions.has THEN [defaults EXCEPT !.timeout = axiosOptions.timeout]
    ELSE defaults

\* new RestClient(options): the instance keeps the options and an axios
\* instance created from the assigned defaults.
NewClient(options, defaults) ==
    [options |-> options, axios |-> AssignDefaults(defaults, options.axiosOptions)]

NoAxiosOptions == [has |-> FALSE, timeout |-> 0]

\* The credentials a client is constructed with in the model.
ClientOptions ==
    [apikey : {"undefined", "key1"},
     apisecret : {"undefined", "sec1"},
     axiosOptions : {NoAxiosOptions}]
    \cup {[apikey |-> "", apisecret |-> "sec1", axiosOptions |-> NoAxiosOptions]}

\* The options of the clients constructed one after another in the
\* construction runs: with and without a timeout of their own.
ConstructOptions ==
    [apikey : {"undefined", "key1"},
     apisecret : {"undefined", "sec1"},
     axiosOptions : {NoAxiosOptions,
                     [has |-> TRUE, timeout |-> 5000],
                     [has |-> TRUE, timeout |-> 50]}]

(***************************************************************************)
(* The caller's inputs.                                                    *)
(***************************************************************************)
Endpoints ==
    [url : {<<"/", "v3/order">>},
     security : {"NONE", "API-KEY", "SIGNED"},
     method : {"undefined", "POST"}]

\* Parameter mappings a caller passes (as options.params and options.data).
PlainParams == <<  <<"symbol", Str("BTC")>>  >>
ClashParams ==
    <<  <<"timestamp", Str("callerts")>>, <<"signature", Str("callersig")>>,
        <<"symbol", Str("BTC")>>  >>

\* The mapping passed as options.data beside a mapping passed as
\* options.params: the same keys, another symbol.
DataOf(mapping) ==
    [i \in 1..Len(mapping) |->
        IF mapping[i][1] = "symbol" THEN <<"symbol", Str("ETH")>> ELSE mapping[i]]

\* A transport-options object as the caller writes it: plain mappings for
\* params and data, a headers object (a fresh one, or one the caller already
\* holds), and fields the dispatcher is meant to overwrite.
Template(has, mapping, hkind, hobj, hid, vs, u, m) ==
    [has |-> has, mapping |-> mapping,
     hkind |-> hkind, hobj |-> hobj, hid |-> hid,
     validateStatus |-> vs, url |-> u, method |-> m]

FreshTemplates ==
    { Template(TRUE, PlainParams, "none", <<>>, 0,
               "undefined", <<>>, "undefined"),
      Template(TRUE, ClashParams, "fresh",
               << <<"X-MBX-APIKEY", Str("callerkey")>> >>, 0,
               "callerRejects", <<"http://caller">>, "PUT") }

\* Templates that pass a headers object the caller already holds.
SharedTemplates(held) ==
    { Template(FALSE, <<>>, "shared", <<>>, h, "undefined", <<>>, "undefined")
        : h \in held }

\* The caller evaluates the options literal: the mappings and the headers
\* object are allocated, then the options object that refers to them.
AllocOptions(tpl, O, H) ==
    LET H1 == IF tpl.has THEN H \o <<tpl.mapping, DataOf(tpl.mapping)>> ELSE H
        pRef == IF tpl.has THEN ObjRef(Len(H1) - 1) ELSE Absent
        dRef == IF tpl.has THEN ObjRef(Len(H1)) ELSE Absent
        H2 == IF tpl.hkind = "fresh" THEN Append(H1, tpl.hobj) ELSE H1
        hRef == IF tpl.hkind = "fresh" THEN ObjRef(Len(H2))
                ELSE IF tpl.hkind = "shared" THEN ObjRef(tpl.hid)
                ELSE Absent
        rec == [params |-> pRef, data |-> dRef, headers |-> hRef,
                url |-> tpl.url, method |-> tpl.method,
                validateStatus |-> tpl.validateStatus]
    IN  [opts |-> Append(O, rec), objs |-> H2, id |-> Len(O) + 1]

(***************************************************************************)
(* Frames.                                                                 *)
(***************************************************************************)
NoOptions ==
    [params |-> Absent, data |-> Absent, headers |-> Absent,
     url |-> <<>>, method |-> "undefined", validateStatus |-> "undefined"]

\* The arguments as they were when the call began.
Given(o, O, H) ==
    [options |-> O[o],
     params |-> ObjectAssign(O[o].params, H),
     data |-> ObjectAssign(O[o].data, H),
     headers |-> ObjectAssign(O[o].headers, H)]

IdleFrame ==
    [pc |-> "idle", client |-> 0,
     endpoint |-> [url |-> <<>>, security |-> "NONE", method |-> "undefined"],
     opt |-> 0,
     given |-> [options |-> NoOptions, params |-> <<>>, data |-> <<>>,
                headers |-> <<>>],
     locals |-> [httpMethod |-> "", headers |-> 0, inputs |-> 0],
     request |-> NoRequest,
     result |-> NoResponse,
     outcome |-> NoOutcome]

Started == {c \in CallIds : calls[c].pc # "idle"}

\* The headers objects the caller can reach: those it passed in and those the
\* dispatcher left in an options object.
HeldHeaders ==
    {opts[o].headers.id : o \in {x \in 1..Len(opts) : opts[x].headers.k = "obj"}}

\* The number of times the transport was invoked on behalf of call c.
Sends(c) == Cardinality({i \in 1..Len(wire) : wire[i].call = c})

(***************************************************************************)
(* Actions.                                                                *)
(***************************************************************************)
\* Mutant: the request is handed to the transport before the credential
\* checks have had their say.
TransmitUnchecked(w, c, r) == Append(w, [call |-> c, req |-> r.request])

\* result = await this.axios.request(requestOptions): the transport is invoked
\* once, and only when the synchronous part threw nothing.
Transmit(w, c, r) ==
    IF r.sent THEN Append(w, [call |-> c, req |-> r.request]) ELSE w

\* client.http(endpoint, options) runs to its await (or to its throw) on the
\* options object o of heap O.
Enter(c, cl, endpoint, o, O, H, t) ==
    LET r == HttpSync(clients[cl], endpoint, o, O, H, t)
    IN  /\ opts' = r.opts
        /\ objs' = r.objs
        /\ now' = r.clock
        /\ wire' = Transmit(wire, c, r)
        /\ calls' = [calls EXCEPT ![c] =
              [pc |-> IF r.sent THEN "awaiting" ELSE "done",
               client |-> cl, endpoint |-> endpoint, opt |-> o,
               given |-> Given(o, O, H),
               locals |-> r.locals,
               request |-> r.request,
               result |-> NoResponse,
               outcome |-> r.thrown]]
        /\ UNCHANGED <<AXIOS_DEFAULTS, clients>>

\* A call with an options object written for this call (or with none: the
\* parameter's default {}).
CallFresh(c, cl, endpoint, tpl) ==
    /\ calls[c].pc = "idle"
    /\ c = Cardinality(Started) + 1
    /\ LET a == AllocOptions(tpl, opts, objs)
       IN  Enter(c, cl, endpoint, a.id, a.opts, a.objs, now)
    /\ UNCHANGED books

\* A call that passes an options object used by an earlier call.
CallReuse(c, cl, endpoint, o) ==
    /\ calls[c].pc = "idle"
    /\ c = Cardinality(Started) + 1
    /\ Enter(c, cl, endpoint, o, opts, objs, now)
    /\ UNCHANGED books

\* The transport delivers an HTTP response to call c.
Respond(c, result) ==
    /\ calls[c].pc = "awaiting"
    /\ calls' = [calls EXCEPT ![c].pc = "done",
                              ![c].result = result,
                              ![c].outcome = OnResponse(calls[c].request, result)]
    /\ UNCHANGED <<AXIOS_DEFAULTS, clients, opts, objs, wire, now, books>>

\* The transport fails without a response (timeout, connection error).
TransportFail(c, cause) ==
    /\ calls[c].pc = "awaiting"
    /\ calls' = [calls EXCEPT ![c].pc = "done",
                              ![c].outcome = OnTransportError(cause)]
    /\ UNCHANGED <<AXIOS_DEFAULTS, clients, opts, objs, wire, now, books>>

(***************************************************************************)
(* getOrderBook (rest-client.ts:171-196).                                  *)
(***************************************************************************)
ENDPOINTS_ORDERBOOK ==
    [url |-> <<"/", "v1/depth">>, security |-> "NONE", method |-> "undefined"]

\* The options literal { params: { symbol, limit } }: a new mapping and a new
\* options object that refers to it.
OrderBookOptions(symbol, limit, O, H) ==
    LET H1 == Append(H, << <<"symbol", symbol>>, <<"limit", limit>> >>)
        rec == [NoOptions EXCEPT !.params = ObjRef(Len(H1))]
    IN  [opts |-> Append(O, rec), objs |-> H1, id |-> Len(O) + 1]

NoBook == [lastUpdateId |-> 0, bids |-> <<>>, asks |-> <<>>]

IdleBook == [pc |-> "idle", kind |-> "", returned |-> NoBook, thrown |-> NoOutcome]

\* Mutant: price and quantity are read from the wrong positions.
ReshapeEntrySwapped(entry) == [price |-> entry[2], quantity |-> entry[1]]

\* entry => ({ price: entry[0], quantity: entry[1] })
ReshapeEntry(entry) == [price |-> entry[1], quantity |-> entry[2]]

\* The object getOrderBook returns for the raw response body.
Reshape(response) ==
    [lastUpdateId |-> response.lastUpdateId,
     bids |-> [i \in 1..Len(response.bids) |-> ReshapeEntry(response.bids[i])],
     asks |-> [i \in 1..Len(response.asks) |-> ReshapeEntry(response.asks[i])]]

\* getOrderBook after its await: the dispatcher's error is rethrown as it is,
\* a resolved response is reshaped.
OrderBookResult(outcome) ==
    IF outcome.kind = "Success"
    THEN [pc |-> "done", kind |-> "returned",
          returned |-> Reshape(outcome.response), thrown |-> NoOutcome]
    ELSE [pc |-> "done", kind |-> "thrown",
          returned |-> NoBook, thrown |-> outcome]

\* client.getOrderBook(symbol, limit) up to its await of this.http(...).
GetOrderBook(c, cl, symbol, limit) ==
    /\ calls[c].pc = "idle"
    /\ books[c].pc = "idle"
    /\ c = Cardinality(Started) + 1
    /\ LET a == OrderBookOptions(symbol, limit, opts, objs)
       IN  Enter(c, cl, ENDPOINTS_ORDERBOOK, a.id, a.opts, a.objs, now)
    /\ books' = [books EXCEPT ![c].pc = "awaiting"]

\* getOrderBook resumes once the dispatch it awaits has settled.
OrderBookSettle(c) ==
    /\ books[c].pc = "awaiting"
    /\ calls[c].pc = "done"
    /\ books' = [books EXCEPT ![c] = OrderBookResult(calls[c].outcome)]
    /\ UNCHANGED <<AXIOS_DEFAULTS, clients, opts, objs, calls, wire, now>>

\* Raw order-book bodies (README lines 165-191, test fixture): entries are
\* [price, quantity] or [price, quantity, []] arrays of strings.
RawEntryA == <<"4.00000000", "431.00000000", "[]">>
RawEntryB == <<"4.00000200", "12.00000000">>
RawEntryC == <<"12.00000000", "4.00000200">>
RawBooks ==
    [lastUpdateId : {1027024},
     bids : {<<>>, <<RawEntryA>>, <<RawEntryA, RawEntryB>>, <<RawEntryB, RawEntryA>>},
     asks : {<<>>, <<RawEntryC, RawEntryB>>}]

OrderBookResponses ==
    [status : {200}, statusText : {"OK"}, data : RawBooks]
    \cup {[status |-> 400, statusText |-> "Bad Request",
            data |-> [code |-> "-1121", msg |-> "Invalid symbol."]],
          [status |-> 504, statusText |-> "Gateway Timeout",
            data |-> [code |-> "-1007", msg |-> "Timeout"]],
          [status |-> 502, statusText |-> "Bad Gateway",
            data |-> [code |-> "-1000", msg |-> "Unknown"]]}

\* The responses and failures the transport produces in the model: the
\* boundary statuses of every class the dispatcher tells apart, and two
\* responses that differ only in their text and body.
Statuses == {199, 200, 399, 400, 499, 500, 503, 504, 505, 599, 600}
Responses ==
    [status : Statuses, statusText : {"text"}, data : {"body"}]
    \cup {[status |-> 406, statusText |-> "Not Acceptable", data |-> "code-1121"]}
OkResponses == {[status |-> 200, statusText |-> "OK", data |-> "body"]}
Causes == {"timeout of 50ms exceeded"}

\* In the status runs the caller passes no parameters but brings its own
\* validateStatus, url and method, and calls one endpoint of each tier.
BareTemplates ==
    { Template(FALSE, <<>>, "none", <<>>, 0,
               "callerRejects", <<"http://caller">>, "PUT") }

StatusEndpoints ==
    { [url |-> <<"/", "v1/ping">>, security |-> "NONE", method |-> "undefined"],
      [url |-> <<"some/thing">>, security |-> "API-KEY", method |-> "GET"],
      [url |-> <<"/", "v3/account">>, security |-> "SIGNED", method |-> "undefined"],
      [url |-> <<"/", "v3/order">>, security |-> "SIGNED", method |-> "POST"] }

Init ==
    /\ AXIOS_DEFAULTS = [timeout |-> 15000]
    /\ \E options \in ClientOptions :
         clients = << NewClient(options, [timeout |-> 15000]) >>
    /\ opts = <<>>
    /\ objs = <<>>
    /\ calls = [c \in CallIds |-> IdleFrame]
    /\ wire = <<>>
    /\ now = 1
    /\ books = [c \in CallIds |-> IdleBook]

\* new RestClient(options): Object.assign writes the overrides into the
\* module's defaults object, axios.create merges that object into the
\* instance's own configuration.
Construct(options) ==
    /\ Len(clients) < MaxClients
    /\ AXIOS_DEFAULTS' = AssignDefaults(AXIOS_DEFAULTS, options.axiosOptions)
    /\ clients' = Append(clients, NewClient(options, AXIOS_DEFAULTS))
    /\ UNCHANGED <<opts, objs, calls, wire, now, books>>

\* The module has been loaded and no client constructed yet.
InitModule ==
    /\ AXIOS_DEFAULTS = [timeout |-> 15000]
    /\ clients = <<>>
    /\ opts = <<>>
    /\ objs = <<>>
    /\ calls = [c \in CallIds |-> IdleFrame]
    /\ wire = <<>>
    /\ now = 1
    /\ books = [c \in CallIds |-> IdleBook]

NextConstruct == \E options \in ConstructOptions : Construct(options)

SpecConstruct == InitModule /\ [][NextConstruct]_vars

\* Calls that stage, sign and reuse caller-owned objects; every request is
\* answered with 200.
Next ==
    \/ \E c \in CallIds, cl \in 1..Len(clients), e \in Endpoints,
          tpl \in FreshTemplates \cup SharedTemplates(HeldHeaders) :
         CallFresh(c, cl, e, tpl)
    \/ \E c \in CallIds, cl \in 1..Len(clients), e \in Endpoints,
          o \in 1..Len(opts) :
         CallReuse(c, cl, e, o)
    \/ \E c \in CallIds, r \in OkResponses : Respond(c, r)

Spec == Init /\ [][Next]_vars

\* Calls whose requests meet every kind of response and transport failure.
NextStatus ==
    \/ \E c \in CallIds, cl \in 1..Len(clients), e \in StatusEndpoints,
          tpl \in BareTemplates :
         CallFresh(c, cl, e, tpl)
    \/ \E c \in CallIds, r \in Responses : Respond(c, r)
    \/ \E c \in CallIds, x \in Causes : TransportFail(c, x)

SpecStatus == Init /\ [][NextStatus]_vars

\* Order books requested with and without a limit, answered by well-formed
\* books, by error statuses and by transport failures.
NextOrderBook ==
    \/ \E c \in CallIds, cl \in 1..Len(clients),
          limit \in {Undefined, Num(5)} :
         GetOrderBook(c, cl, Str("BTC"), limit)
    \/ \E c \in CallIds, r \in OrderBookResponses : Respond(c, r)
    \/ \E c \in CallIds, x \in Causes : TransportFail(c, x)
    \/ \E c \in CallIds : OrderBookSettle(c)

SpecOrderBook == Init /\ [][NextOrderBook]_vars

(***************************************************************************)
(* Observations used by the properties.                                    *)
(***************************************************************************)
Done(c) == calls[c].pc = "done"

\* Call c handed a request to the transport.
Sent(c) == Sends(c) > 0

\* Call c received an HTTP response (of any status).
Received(c) == Done(c) /\ calls[c].result.status >= 0

\* Call c's transport failed without a response.
Failed(c) == Done(c) /\ Sent(c) /\ calls[c].result.status < 0

Kind(c) == calls[c].outcome.kind

ClientOf(c) == clients[calls[c].client]

\* The parameter string the server receives: the query axios builds from
\* params (GET) or the body (every other method).
RawParams(req) ==
    IF req.params.k = "obj" THEN qstringify(req.params.o) ELSE req.data.s

RECURSIVE Split(_, _)
Split(s, cur) ==
    IF s = <<>> THEN <<cur>>
    ELSE IF Head(s) = "&" THEN <<cur>> \o Split(Tail(s), <<>>)
    ELSE Split(Tail(s), Append(cur, Head(s)))

\* The name=value segments of a parameter string.
Segments(s) == IF s = <<>> THEN <<>> ELSE Split(s, <<>>)

SegKey(seg) == seg[1]
SegValue(seg) == SubSeq(seg, 3, Len(seg))

RECURSIVE Join(_)
Join(segs) ==
    IF segs = <<>> THEN <<>>
    ELSE IF Len(segs) = 1 THEN segs[1]
    ELSE segs[1] \o <<"&">> \o Join(Tail(segs))

\* The segments of a parameter string other than those named k, in order.
RECURSIVE Without(_, _)
Without(segs, k) ==
    IF segs = <<>> THEN <<>>
    ELSE IF SegKey(Head(segs)) = k THEN Without(Tail(segs), k)
    ELSE <<Head(segs)>> \o Without(Tail(segs), k)

\* The mapping call c's options held, on entry, in the field its method reads.
GivenInputs(c) ==
    IF calls[c].locals.httpMethod = "GET" THEN calls[c].given.params
    ELSE calls[c].given.data

(***************************************************************************)
(* C1: for every HTTP status s of a received response the outcome is the   *)
(* one kind its class prescribes: 200..399 resolves with the response,     *)
(* 400..499 throws MalformedRequestError, 504 throws                       *)
(* RequestResultUnknownError, the other 500..599 throw                     *)
(* InternalRequestError; for every security tier and method.               *)
(***************************************************************************)
C1_StatusMapping ==
    \A c \in CallIds :
        Received(c) =>
            LET s == calls[c].result.status
            IN  /\ (s >= 200 /\ s <= 399) =>
                      /\ Kind(c) = "Success"
                      /\ calls[c].outcome.statusCode = s
                      /\ calls[c].outcome.response = calls[c].result.data
                /\ (s >= 400 /\ s <= 499) => Kind(c) = "MalformedRequestError"
                /\ s = 504 => Kind(c) = "RequestResultUnknownError"
                /\ (s >= 500 /\ s <= 599 /\ s # 504) =>
                      Kind(c) = "InternalRequestError"

\* A signed POST answered with 504 next to another call answered with 200.
C1_Witness ==
    \E c, d \in CallIds :
        /\ Received(c) /\ calls[c].result.status = 504
        /\ calls[c].endpoint.security = "SIGNED"
        /\ calls[c].locals.httpMethod = "POST"
        /\ Kind(c) = "RequestResultUnknownError"
        /\ Received(d) /\ calls[d].result.status = 200 /\ Kind(d) = "Success"

(***************************************************************************)
(* C2: a received status outside 200..399 (below 200 and 600 or above      *)
(* included) never resolves successfully.                                  *)
(***************************************************************************)
C2_OnlySuccessIn200To399 ==
    \A c \in CallIds :
        (Received(c) /\ Kind(c) = "Success") =>
            (calls[c].result.status >= 200 /\ calls[c].result.status <= 399)

(***************************************************************************)
(* C3: on an API-KEY or SIGNED endpoint, a client constructed without an   *)
(* apikey fails with MissingCredentialsError whose message names the tier  *)
(* and opts.apikey, and the transport is not invoked by that call.         *)
(***************************************************************************)
C3_MissingApiKey ==
    \A c \in Started :
        (calls[c].endpoint.security # "NONE" /\ Falsy(ClientOf(c).options.apikey))
        =>  /\ Done(c)
            /\ Kind(c) = "MissingCredentialsError"
            /\ calls[c].outcome.message =
                 <<calls[c].endpoint.security, "HTTP endpoints require",
                   "opts.apikey", "to be provided">>
            /\ Sends(c) = 0

\* An API-KEY call on a client without credentials has thrown.
C3_Witness ==
    \E c \in Started :
        /\ calls[c].endpoint.security = "API-KEY"
        /\ Falsy(ClientOf(c).options.apikey)
        /\ Kind(c) = "MissingCredentialsError"
        /\ Sends(c) = 0

(***************************************************************************)
(* C4: on a SIGNED endpoint, a client with an apikey and no apisecret      *)
(* fails with MissingCredentialsError naming opts.apisecret without        *)
(* invoking the transport; the apikey is checked first, so with both       *)
(* credentials absent the error names opts.apikey.                         *)
(***************************************************************************)
C4_MissingApiSecret ==
    \A c \in Started :
        (calls[c].endpoint.security = "SIGNED"
            /\ Falsy(ClientOf(c).options.apisecret))
        =>  /\ Done(c)
            /\ Kind(c) = "MissingCredentialsError"
            /\ Sends(c) = 0
            /\ calls[c].outcome.message =
                 <<"SIGNED", "HTTP endpoints require",
                   IF Falsy(ClientOf(c).options.apikey)
                   THEN "opts.apikey" ELSE "opts.apisecret",
                   "to be provided">>

\* A SIGNED call on a client holding only an apikey has thrown.
C4_Witness ==
    \E c \in Started :
        /\ calls[c].endpoint.security = "SIGNED"
        /\ ~Falsy(ClientOf(c).options.apikey)
        /\ Falsy(ClientOf(c).options.apisecret)
        /\ Kind(c) = "MissingCredentialsError"
        /\ calls[c].outcome.message[3] = "opts.apisecret"
        /\ Sends(c) = 0

(***************************************************************************)
(* C5: a request to a NONE endpoint carries no X-MBX-APIKEY header and no  *)
(* timestamp or signature parameter put there by the dispatcher, in any    *)
(* sequence of calls, reuse of options or headers objects included.  (The  *)
(* caller's own values are "callerkey", "callerts" and "callersig".)       *)
(***************************************************************************)
C5_NoneCarriesNoCredentials ==
    \A i \in 1..Len(wire) :
        LET c == wire[i].call
            req == wire[i].req
            segs == Segments(RawParams(req))
        IN  calls[c].endpoint.security = "NONE" =>
              /\ HasKey(req.headers, "X-MBX-APIKEY") =>
                    Get(req.headers, "X-MBX-APIKEY") = Str("callerkey")
              /\ \A j \in 1..Len(segs) :
                    /\ SegKey(segs[j]) = "timestamp" =>
                          SegValue(segs[j]) = <<"callerts">>
                    /\ SegKey(segs[j]) = "signature" =>
                          SegValue(segs[j]) = <<"callersig">>

(***************************************************************************)
(* C6: a request to an API-KEY endpoint carries X-MBX-APIKEY equal to the  *)
(* configured apikey, whatever value the caller supplied for it, and the   *)
(* dispatch adds no timestamp or signature parameter: any such parameter   *)
(* transmitted was in the options passed, with that value; with or without *)
(* an apisecret.                                                           *)
(***************************************************************************)
C6_ApiKeyHeaderOnly ==
    \A i \in 1..Len(wire) :
        LET c == wire[i].call
            req == wire[i].req
            segs == Segments(RawParams(req))
            given == GivenInputs(c)
        IN  calls[c].endpoint.security = "API-KEY" =>
              /\ HasKey(req.headers, "X-MBX-APIKEY")
              /\ Get(req.headers, "X-MBX-APIKEY") = Str(ClientOf(c).options.apikey)
              /\ \A j \in 1..Len(segs) :
                    SegKey(segs[j]) \in {"timestamp", "signature"} =>
                        /\ HasKey(given, SegKey(segs[j]))
                        /\ SegValue(segs[j]) =
                             <<StringifyPrimitive(Get(given, SegKey(segs[j])))>>

\* An API-KEY request whose caller supplied another X-MBX-APIKEY, on a client
\* without and on a client with an apisecret.
C6_Witness ==
    \E i \in 1..Len(wire) :
        LET c == wire[i].call
        IN  /\ calls[c].endpoint.security = "API-KEY"
            /\ HasKey(calls[c].given.headers, "X-MBX-APIKEY")
            /\ Get(calls[c].given.headers, "X-MBX-APIKEY") = Str("callerkey")
            /\ Get(wire[i].req.headers, "X-MBX-APIKEY") = Str("key1")
            /\ Segments(RawParams(wire[i].req)) # <<>>

(***************************************************************************)
(* C7: a request to a SIGNED endpoint carries timestamp and signature, and *)
(* the signature is getHmac(apisecret) of the serialization of exactly the *)
(* transmitted parameters other than signature, in their order; in any     *)
(* sequence of calls, with reused options and with caller parameters that  *)
(* already hold a timestamp or signature key.                              *)
(***************************************************************************)
C7_SignatureCoversTransmitted ==
    \A i \in 1..Len(wire) :
        LET c == wire[i].call
            segs == Segments(RawParams(wire[i].req))
            signed == Join(Without(segs, "signature"))
        IN  calls[c].endpoint.security = "SIGNED" =>
              /\ \E j \in 1..Len(segs) : SegKey(segs[j]) = "timestamp"
              /\ \E j \in 1..Len(segs) : SegKey(segs[j]) = "signature"
              /\ \A j \in 1..Len(segs) :
                    SegKey(segs[j]) = "signature" =>
                        SegValue(segs[j]) =
                            <<getHmac(signed, ClientOf(c).options.apisecret)>>

(***************************************************************************)
(* C8: every MalformedRequestError, RequestResultUnknownError and          *)
(* InternalRequestError carries as response, statusText and statusCode the *)
(* body, status text and status code of the response that same call        *)
(* received.                                                               *)
(***************************************************************************)
StatusErrorKinds ==
    {"MalformedRequestError", "RequestResultUnknownError", "InternalRequestError"}

C8_ErrorCarriesOwnResponse ==
    \A c \in CallIds :
        (Done(c) /\ Kind(c) \in StatusErrorKinds) =>
            /\ Received(c)
            /\ calls[c].outcome.response = calls[c].result.data
            /\ calls[c].outcome.statusText = calls[c].result.statusText
            /\ calls[c].outcome.statusCode = calls[c].result.status

\* Two calls that received different error responses.
C8_Witness ==
    \E c, d \in CallIds :
        /\ Done(c) /\ Kind(c) = "MalformedRequestError"
        /\ calls[c].outcome.statusCode = 406
        /\ calls[c].outcome.response = "code-1121"
        /\ calls[c].outcome.statusText = "Not Acceptable"
        /\ Done(d) /\ Kind(d) = "InternalRequestError"
        /\ calls[d].outcome.statusCode = 500
        /\ calls[d].outcome.response = "body"

(***************************************************************************)
(* C9: a transport failure (no HTTP response) makes the call throw         *)
(* HttpError wrapping the cause, never a status error or a success; a      *)
(* received response of any status never yields HttpError, the transport   *)
(* always being invoked with a validateStatus that accepts every status,   *)
(* whatever the caller's options say.                                      *)
(***************************************************************************)
C9_HttpErrorIffTransportFailure ==
    /\ \A c \in CallIds :
          /\ Failed(c) =>
                /\ Kind(c) = "HttpError"
                /\ \E x \in Causes : calls[c].outcome.message = <<x>>
          /\ Received(c) => Kind(c) # "HttpError"
    /\ \A i \in 1..Len(wire) : wire[i].req.validateStatus = "acceptAll"

\* A call whose transport failed, and a call whose caller passed a
\* validateStatus rejecting everything and which received a 400.
C9_Witness ==
    \E c, d \in CallIds :
        /\ Failed(c) /\ Kind(c) = "HttpError"
        /\ Received(d) /\ calls[d].result.status = 400
        /\ calls[d].given.options.validateStatus = "callerRejects"
        /\ Kind(d) = "MalformedRequestError"

(***************************************************************************)
(* C10: each call invokes the transport at most once: exactly once when    *)
(* the credential checks pass, never when MissingCredentialsError is       *)
(* thrown, and not again after a transport failure or an error status;     *)
(* every finished call has surfaced its outcome.                           *)
(***************************************************************************)
C10_TransportInvokedAtMostOnce ==
    \A c \in CallIds :
        /\ Sends(c) <= 1
        /\ calls[c].pc = "idle" => Sends(c) = 0
        /\ Kind(c) = "MissingCredentialsError" => (Done(c) /\ Sends(c) = 0)
        /\ (c \in Started /\ Kind(c) # "MissingCredentialsError") => Sends(c) = 1
        /\ Done(c) => Kind(c) # "none"
        /\ Failed(c) => Kind(c) = "HttpError"
        /\ (Received(c) /\ calls[c].result.status >= 400
                /\ calls[c].result.status <= 599) => Kind(c) \in StatusErrorKinds

\* One call ended by a transport failure after its single request, another
\* ended by MissingCredentialsError without any.
C10_Witness ==
    \E c, d \in CallIds :
        /\ Failed(c) /\ Sends(c) = 1
        /\ Done(d) /\ Kind(d) = "MissingCredentialsError" /\ Sends(d) = 0

(***************************************************************************)
(* C11: RestClient.http never writes the caller's parameter mapping: the   *)
(* object passed as options.params or options.data holds, after the call   *)
(* (any tier, any method, sent or thrown), the keys and values it held     *)
(* before; timestamp and signature go to a copy.                           *)
(***************************************************************************)
C11_CallerMappingUntouched ==
    \A c \in Started :
        LET g == calls[c].given
        IN  /\ g.options.params.k = "obj" => objs[g.options.params.id] = g.params
            /\ g.options.data.k = "obj" => objs[g.options.data.id] = g.data
            /\ calls[c].locals.inputs \notin
                 {r.id : r \in {x \in {g.options.params, g.options.data} :
                                   x.k = "obj"}}

\* A signed request went out with timestamp and signature while the mapping
\* the caller passed still holds its one parameter.
C11_Witness ==
    \E i \in 1..Len(wire) :
        LET c == wire[i].call
            g == calls[c].given
        IN  /\ calls[c].endpoint.security = "SIGNED"
            /\ g.options.params.k = "obj" /\ g.options.data.k = "obj"
            /\ HasKey(objs[calls[c].locals.inputs], "signature")
            /\ ~HasKey(objs[g.options.params.id], "signature")
            /\ ~HasKey(objs[g.options.data.id], "timestamp")
            /\ Len(objs[g.options.params.id]) = 1

(***************************************************************************)
(* C12: getOrderBook reshapes and adds nothing.  For a successful raw      *)
(* response {lastUpdateId, bids, asks} it returns the same lastUpdateId,   *)
(* bids and asks of the same lengths in the same order, and entry i of     *)
(* each side is {price: raw[i][0], quantity: raw[i][1]}, the strings       *)
(* unchanged; an error of the dispatcher is the error of getOrderBook.     *)
(***************************************************************************)
C12_OrderBookReshape ==
    \A c \in CallIds :
        books[c].pc = "done" =>
            LET raw == calls[c].result.data
                out == books[c].returned
            IN  IF Kind(c) = "Success"
                THEN /\ books[c].kind = "returned"
                     /\ out.lastUpdateId = raw.lastUpdateId
                     /\ Len(out.bids) = Len(raw.bids)
                     /\ Len(out.asks) = Len(raw.asks)
                     /\ \A i \in 1..Len(raw.bids) :
                          out.bids[i] = [price |-> raw.bids[i][1],
                                         quantity |-> raw.bids[i][2]]
                     /\ \A i \in 1..Len(raw.asks) :
                          out.asks[i] = [price |-> raw.asks[i][1],
                                         quantity |-> raw.asks[i][2]]
                ELSE /\ books[c].kind = "thrown"
                     /\ books[c].thrown = calls[c].outcome
                     /\ books[c].returned = NoBook

\* One order book of two bids and two asks was reshaped, and another request
\* ended with the dispatcher's error.
C12_Witness ==
    /\ \E c \in CallIds :
         /\ books[c].kind = "returned"
         /\ Len(books[c].returned.bids) = 2
         /\ Len(books[c].returned.asks) = 2
         /\ books[c].returned.bids[1].price # books[c].returned.bids[2].price
    /\ \E c \in CallIds :
         /\ books[c].kind = "thrown"
         /\ books[c].thrown.kind \in StatusErrorKinds \cup {"HttpError"}

(***************************************************************************)
(* C13: every client's effective transport configuration is the defaults   *)
(* (timeout 15000) overridden by that client's own axiosOptions only: a    *)
(* client constructed without overrides has timeout 15000 whatever clients *)
(* were constructed before it, and no construction changes the defaults.   *)
(***************************************************************************)
C13_OwnOverridesOnly ==
    /\ AXIOS_DEFAULTS.timeout = 15000
    /\ \A i \in 1..Len(clients) :
         clients[i].axios.timeout =
            IF clients[i].options.axiosOptions.has
            THEN clients[i].options.axiosOptions.timeout
            ELSE 15000

(***************************************************************************)
(* C14: RestClient.http never mutates caller-owned inputs.  After any      *)
(* call, one that threw MissingCredentialsError included, the options      *)
(* object the caller passed holds the params, data, headers, url, method   *)
(* and validateStatus it held before the call, and the headers object      *)
(* inside it holds the headers it held before.                             *)
(***************************************************************************)
C14_CallerInputsUntouched ==
    \A c \in Started :
        LET g == calls[c].given
        IN  /\ opts[calls[c].opt] = g.options
            /\ g.options.headers.k = "obj" =>
                   objs[g.options.headers.id] = g.headers

\* The properties of a mapping other than timestamp and signature, in order.
OwnPairs(o) == SelectSeq(o, LAMBDA p : p[1] \notin {"timestamp", "signature"})

\* The segments of a parameter string other than timestamp and signature.
OwnSegments(s) == Without(Without(Segments(s), "timestamp"), "signature")

(***************************************************************************)
(* C15: every request has the method of its endpoint, GET when the         *)
(* endpoint names none, and the url of its endpoint under the API base.    *)
(* A GET request carries its parameters as the query, built from           *)
(* options.params, and no body; a request of any other method carries them *)
(* as the form-urlencoded body, built from options.data, and no query.  A  *)
(* url or method in the caller's options changes none of this.             *)
(***************************************************************************)
C15_MethodAndPlacement ==
    \A i \in 1..Len(wire) :
        LET c == wire[i].call
            req == wire[i].req
            e == calls[c].endpoint
            g == calls[c].given
            method == IF e.method = "undefined" THEN "GET" ELSE e.method
        IN  /\ req.method = method
            /\ req.url = <<"https://api.binance.com", "/", "api", "/",
                           e.url[Len(e.url)]>>
            /\ method = "GET" =>
                 /\ req.params.k = "obj"
                 /\ req.data.k = "absent"
                 /\ OwnPairs(req.params.o) = OwnPairs(g.params)
                 /\ e.security # "SIGNED" => req.params.o = g.params
            /\ method # "GET" =>
                 /\ req.params.k = "absent"
                 /\ req.data.k = "str"
                 /\ OwnSegments(req.data.s) = OwnSegments(qstringify(g.data))
                 /\ e.security # "SIGNED" => req.data.s = qstringify(g.data)

\* A GET and a POST request were sent from options in which the caller set a
\* url and the method PUT, and whose params and data name different symbols.
C15_Witness ==
    /\ \E i \in 1..Len(wire) :
         LET c == wire[i].call
         IN  /\ calls[c].given.options.method = "PUT"
             /\ calls[c].given.options.url = <<"http://caller">>
             /\ wire[i].req.method = "GET"
             /\ HasKey(wire[i].req.params.o, "symbol")
             /\ Get(wire[i].req.params.o, "symbol") = Str("BTC")
             /\ Get(calls[c].given.data, "symbol") = Str("ETH")
    /\ \E i \in 1..Len(wire) :
         LET c == wire[i].call
         IN  /\ calls[c].given.options.method = "PUT"
             /\ wire[i].req.method = "POST"
             /\ \E j \in 1..Len(Segments(wire[i].req.data.s)) :
                  Segments(wire[i].req.data.s)[j] = <<"symbol", "=", "ETH">>
             /\ Get(calls[c].given.params, "symbol") = Str("BTC")

(***************************************************************************)
(* C16 as stated: in every signed request timestamp and signature are the  *)
(* final two fields of the transmitted parameters, in that order, after    *)
(* all caller parameters, whatever keys the caller's mapping holds (a      *)
(* timestamp or signature key included).                                   *)
(***************************************************************************)
C16_TimestampSignatureLast ==
    \A i \in 1..Len(wire) :
        LET c == wire[i].call
            segs == Segments(RawParams(wire[i].req))
            n == Len(segs)
        IN  calls[c].endpoint.security = "SIGNED" =>
              /\ n >= 2
              /\ SegKey(segs[n - 1]) = "timestamp"
              /\ SegKey(segs[n]) = "signature"

(***************************************************************************)
(* C16 amended: in every signed request whose parameter mapping held no    *)
(* key named timestamp or signature when the call began, the transmitted   *)
(* parameters are the caller's, in order, then timestamp, then signature;  *)
(* the timestamp is a clock reading taken before the signature was         *)
(* computed, and the signature covers everything before it.  (A key of     *)
(* either name that is already there keeps its position and only has its   *)
(* value replaced.)                                                        *)
(***************************************************************************)
C16_AppendedWhenAbsent ==
    \A i \in 1..Len(wire) :
        LET c == wire[i].call
            segs == Segments(RawParams(wire[i].req))
            n == Len(segs)
            given == Segments(qstringify(GivenInputs(c)))
        IN  ( /\ calls[c].endpoint.security = "SIGNED"
              /\ ~HasKey(GivenInputs(c), "timestamp")
              /\ ~HasKey(GivenInputs(c), "signature") ) =>
              /\ n = Len(given) + 2
              /\ SubSeq(segs, 1, n - 2) = given
              /\ SegKey(segs[n - 1]) = "timestamp"
              /\ \E t \in 1..(now - 1) : SegValue(segs[n - 1]) = <<ToString(t)>>
              /\ SegKey(segs[n]) = "signature"
              /\ SegValue(segs[n]) =
                    <<getHmac(Join(SubSeq(segs, 1, n - 1)),
                              ClientOf(c).options.apisecret)>>

\* Signed GET and POST requests were sent for a mapping of one parameter and
\* carry three: symbol, timestamp, signature.
C16_Witness ==
    \A method \in {"GET", "POST"} :
        \E i \in 1..Len(wire) :
            LET c == wire[i].call
                segs == Segments(RawParams(wire[i].req))
            IN  /\ calls[c].endpoint.security = "SIGNED"
                /\ wire[i].req.method = method
                /\ Len(GivenInputs(c)) = 1
                /\ HasKey(GivenInputs(c), "symbol")
                /\ Len(segs) = 3
                /\ SegKey(segs[3]) = "signature"

(***************************************************************************)
(* C17: concurrent calls on one client are independent.  When a call       *)
(* begins while another is awaiting the transport, it reads and writes no  *)
(* object the other has written (neither the options object, nor a headers *)
(* object one of the two writes X-MBX-APIKEY into, nor the other's working *)
(* inputs); every step changes the frame of one call only, so a response   *)
(* settles the call it answers and no other; and no step writes the        *)
(* clients' credentials.                                                   *)
(***************************************************************************)
C17_ConcurrentCallsIndependent ==
    [][ /\ clients' = clients
        /\ \A c \in CallIds : \A d \in CallIds \ {c} :
             /\ calls'[d] # calls[d] => calls'[c] = calls[c]
             /\ ( /\ calls[c].pc = "awaiting"
                  /\ calls[d].pc = "idle"
                  /\ calls'[d].pc # "idle" ) =>
                  /\ calls'[d].opt # calls[c].opt
                  /\ calls'[d].locals.inputs # calls[c].locals.inputs
                  /\ ( calls[c].endpoint.security # "NONE"
                       \/ calls'[d].endpoint.security # "NONE" ) =>
                        calls'[d].locals.headers # calls[c].locals.headers
      ]_vars

====
